---- MODULE Spec2Model ----
(***************************************************************************)
(* Verification model of the art-gallery backend:                          *)
(*   - src/config/__init__.py      token file retry loop, secrets fetch,   *)
(*                                 snapshot build, Config cache            *)
(*   - src/repositories/database.py  connection / cursor scopes            *)
(*   - src/repositories/artwork_repository.py, src/services/...,           *)
(*     src/routes/artwork_routes.py  the read paths of the two endpoints   *)
(*   - src/domain/artwork.py       the Artwork entity                      *)
(*                                                                         *)
(* Python values are encoded as follows.  A dict is a function whose       *)
(* domain is its key set.  A value whose Python type matters is a tagged   *)
(* record: [map |-> d] a dict, [str |-> s] a string (a sequence of         *)
(* chunks; `x in s` is true iff x is one of the chunks), [null |-> TRUE]   *)
(* YAML null.  None is NoneVal.  The outcome of a call is Ret(v) or        *)
(* Raise(e, m): exception class name and message (a sequence of chunks;    *)
(* the Japanese texts of the source are rendered in ASCII).                *)
(***************************************************************************)
EXTENDS Integers, Sequences, FiniteSets, TLC

VARIABLES
    \* ---- src/config/__init__.py ----
    op,             \* the entry point being executed / last executed
    pc,             \* position inside the Config entry point
    CONFIG_FILE,    \* state of config.yaml as read by the current load
    Config_config,  \* Config._config, the process-wide snapshot
    oldConfig,      \* Config._config when the current entry point was called
    docReads,       \* reads of config.yaml made by the current entry point
    httpRequests,   \* requests.get calls made by the current entry point
    request,        \* the request sent to the endpoint (None if none sent)
    response,       \* what the secrets endpoint answered (None if not asked)
    result,         \* outcome of the entry point: Ret(..) / Raise(..)
    stored,         \* the current entry point assigned Config._config
    appCreated,     \* create_app has returned an application
    \* ---- _get_token_from_file ----
    tokPc,          \* "none" | "loop" | "returned" | "raised"
    max_retries, retry_interval,
    attempt,        \* loop iterations executed so far
    sleeps,         \* time.sleep calls made so far
    slept,          \* total seconds slept
    tokenFile,      \* TOKEN_FILE as the latest iteration found it
    sawUsable,      \* some iteration so far found a usable token file
    token,          \* the value returned (<<>> if none)
    \* ---- repositories, service, route ----
    call,           \* the request being executed: entry point and arguments
    dbPc,           \* position inside Database.get_connection
    conn,           \* the connection of the current scope and the calls made on it
    openConns,      \* connections opened and not yet closed, process-wide
    artworks,       \* the artworks table as the query found it
    value,          \* what the body of the scope returns
    origExc,        \* the first error raised inside the scope (None if none)
    exc,            \* the error propagating out of the scope (None if none)
    repoCalls,      \* repository calls made by the current request
    repoResult,     \* outcome of the repository call
    svcResult,      \* outcome of the service call (None if no service involved)
    httpResp,       \* the HTTP response of the route (None if no route involved)
    lastErrorBody,  \* body of the latest 500 response a client received
    \* ---- src/domain/artwork.py ----
    rowData,        \* the dict handed to Artwork.from_dict (None: direct construction)
    artwork,        \* the Artwork entity (None if none constructed)
    markCalls,      \* mark_as_sold calls made on the entity
    transport       \* what to_dict() returned (None if not called)

cfgVars == <<op, pc, CONFIG_FILE, Config_config, oldConfig, docReads,
             httpRequests, request, response, result, stored,
             appCreated>>
tokVars == <<tokPc, max_retries, retry_interval, attempt, sleeps, slept,
             tokenFile, sawUsable, token>>
dbVars == <<call, dbPc, conn, openConns, artworks, value, origExc, exc,
            repoCalls, repoResult, svcResult, httpResp, lastErrorBody>>
entVars == <<rowData, artwork, markCalls, transport>>
vars == <<cfgVars, tokVars, dbVars, entVars>>

-----------------------------------------------------------------------------
(* Bounds of the model *)
MaxRetriesArg == 4       \* largest max_retries passed in a direct call
MaxIntervalArg == 2      \* largest retry_interval passed in a direct call
MaxId == 2               \* artwork ids are 1..MaxId
MaxMarks == 3            \* mark_as_sold calls made on one entity

(* Program constants *)
DefaultMaxRetries == 30
DefaultRetryInterval == 1

-----------------------------------------------------------------------------
(* Python values *)
NoneVal == [none |-> TRUE]
Ret(v) == [ret |-> v]
Raise(e, m) == [exc |-> e, msg |-> m]
IsRaise(r) == "exc" \in DOMAIN r
IsRet(r) == "ret" \in DOMAIN r

EmptyDict == [k \in {} |-> NoneVal]
MapV(d) == [map |-> d]
StrV(s) == [str |-> s]
NullV == [null |-> TRUE]
IsMap(v) == "map" \in DOMAIN v
IsStr(v) == "str" \in DOMAIN v

Put(d, k, v) == [x \in (DOMAIN d) \cup {k} |-> IF x = k THEN v ELSE d[x]]
Update(d, e) ==
    [x \in (DOMAIN d) \cup (DOMAIN e) |-> IF x \in DOMAIN e THEN e[x] ELSE d[x]]

-----------------------------------------------------------------------------
(* Inputs: the token file *)
Whitespace == {" ", "\n", "\t"}

TokenTexts == { <<>>, <<" ", "\n">>, <<" ", "t", "k", "\n">> }

TokenFileStates ==
    {[exists |-> FALSE, readable |-> FALSE, text |-> <<>>],
     [exists |-> TRUE, readable |-> FALSE, text |-> <<>>]}
    \cup {[exists |-> TRUE, readable |-> TRUE, text |-> t] : t \in TokenTexts}

NotObserved == [exists |-> FALSE, readable |-> FALSE, text |-> <<>>]

RECURSIVE LStrip(_)
LStrip(s) ==
    IF s = <<>> THEN s
    ELSE IF Head(s) \in Whitespace THEN LStrip(Tail(s)) ELSE s

RECURSIVE RStrip(_)
RStrip(s) ==
    IF s = <<>> THEN s
    ELSE IF s[Len(s)] \in Whitespace THEN RStrip(SubSeq(s, 1, Len(s) - 1)) ELSE s

\* str.strip()
Strip(s) == RStrip(LStrip(s))

\* lines 25-29: the file exists, read_text() does not raise, and the
\* stripped text is non-empty
TokenUsable(f) == f.exists /\ f.readable /\ Strip(f.text) # <<>>

SleepsAfter_everyAttempt(i, mr) == i < mr

\* line 33: if attempt < max_retries - 1  (attempt is the 0-based index)
SleepsAfter(i, mr) == i < mr - 1

-----------------------------------------------------------------------------
(* Inputs: config.yaml *)
TopKeys == {"server", "database", "secrets_api"}

BaseDb == [host |-> "db", port |-> "5432", name |-> "gallery", user |-> "art"]

ServerSections == { MapV([port |-> "5000", flask_env |-> "production"]) }

\* a mapping without a password, a mapping with one, a string (a database
\* URL that contains the word password), YAML null
DatabaseSections ==
    { MapV(BaseDb),
      MapV(Put(BaseDb, "password", "basepw")),
      StrV(<<"postgresql://art:", "password", "@db/gallery">>),
      NullV }

SecretsApiSections == { MapV([url |-> "http://secrets:5000"]), MapV(EmptyDict) }

SectionValues(k) ==
    CASE k = "server" -> ServerSections
      [] k = "database" -> DatabaseSections
      [] k = "secrets_api" -> SecretsApiSections

AllSectionValues == ServerSections \cup DatabaseSections \cup SecretsApiSections

\* every non-empty mapping over the three sections
ConfigDocs ==
    UNION { {d \in [K -> AllSectionValues] : \A k \in K : d[k] \in SectionValues(k)}
            : K \in (SUBSET TopKeys) \ {{}} }

\* config.yaml: missing, unreadable / not YAML, empty, a YAML scalar,
\* or a mapping
ConfigFileStates ==
    {[file |-> "missing"], [file |-> "unreadable"], [file |-> "empty"]}
    \cup {[scalar |-> <<"hello">>]}
    \cup {[doc |-> d] : d \in ConfigDocs}

NotRead == [file |-> "notread"]

(* Inputs: the answer of the secrets endpoint *)
StatusCodes == {200, 300, 404, 503}

ApiPasswords == {"pw1", "pw2"}

ResponseBodies ==
    {[json |-> "invalid"], [json |-> "array"]}
    \cup {[obj |-> EmptyDict], [obj |-> [password |-> ""]]}
    \cup {[obj |-> [password |-> p]] : p \in ApiPasswords}

Responses ==
    {[net |-> "failure"]}
    \cup {[status |-> s, body |-> b] : s \in StatusCodes, b \in ResponseBodies}

DefaultApiUrl == <<"http://art-gallery-secrets-api:5000">>

-----------------------------------------------------------------------------
(* _load_config_file: the parsed document, or the error raised *)
LoadConfigFile(f) ==
    IF "file" \in DOMAIN f
    THEN CASE f.file = "missing" ->
                Raise("FileNotFoundError", <<"required file not found">>)
           [] f.file = "unreadable" ->
                Raise("RuntimeError", <<"failed to read config.yaml">>)
           [] OTHER ->
                Raise("ValueError", <<"config.yaml is empty">>)
    ELSE Ret(f)

\* lines 44-49: the base URL the password is requested from
ApiUrl(config) ==
    IF "doc" \notin DOMAIN config
    THEN Raise("AttributeError", <<"object has no attribute 'get'">>)
    ELSE LET api_config == IF "secrets_api" \in DOMAIN config.doc
                           THEN config.doc["secrets_api"].map
                           ELSE EmptyDict
         IN  IF "url" \in DOMAIN api_config /\ api_config["url"] # ""
             THEN Ret(<<api_config["url"]>>)
             ELSE Ret(DefaultApiUrl)

\* requests.Response.raise_for_status: raises HTTPError for 4xx and 5xx
RaisesForStatus(status) == 400 <= status /\ status < 600

\* line 63: if not password
PasswordMissing(data) == "password" \notin DOMAIN data \/ data["password"] = ""

\* lines 54-67: the password, or the error raised
PasswordFromResponse(resp) ==
    IF "net" \in DOMAIN resp
    THEN Raise("RuntimeError", <<"failed to fetch password from secrets API">>)
    ELSE IF RaisesForStatus(resp.status)
    THEN Raise("RuntimeError", <<"failed to fetch password from secrets API">>)
    ELSE IF "json" \in DOMAIN resp.body
    THEN IF resp.body.json = "invalid"
         THEN Raise("RuntimeError", <<"failed to fetch password from secrets API">>)
         ELSE Raise("AttributeError", <<"object has no attribute 'get'">>)
    ELSE IF PasswordMissing(resp.body.obj)
    THEN Raise("ValueError", <<"no password from secrets API">>)
    ELSE Ret(resp.body.obj["password"])

\* _load_secrets, lines 90-101
LoadSecrets(db_password) ==
    IF db_password # ""
    THEN [database |-> MapV([password |-> db_password])]
    ELSE EmptyDict

\* lines 113-117: merge the secrets into the document
MergeSecrets(doc, secrets) ==
    IF "database" \in DOMAIN secrets /\ IsMap(secrets["database"])
    THEN LET c == IF "database" \notin DOMAIN doc
                  THEN Put(doc, "database", MapV(EmptyDict))
                  ELSE doc
         IN  IF IsMap(c["database"])
             THEN Put(c, "database",
                      MapV(Update(c["database"].map, secrets["database"].map)))
             ELSE c
    ELSE doc

\* line 120
required_keys == <<"server", "database", "secrets_api">>

MissingKeys(doc) == {i \in DOMAIN required_keys : required_keys[i] \notin DOMAIN doc}

FirstMissing(doc) ==
    required_keys[CHOOSE i \in MissingKeys(doc) : \A j \in MissingKeys(doc) : i <= j]

\* `"password" in v` for the Python value v (None: TypeError)
ContainsPassword(v) ==
    IF IsMap(v) THEN "password" \in DOMAIN v.map
    ELSE IF IsStr(v) THEN \E i \in DOMAIN v.str : v.str[i] = "password"
    ELSE FALSE

\* lines 120-131: the validated document, or the error raised
Validate(doc) ==
    IF MissingKeys(doc) # {}
    THEN Raise("ValueError", <<"config.yaml lacks required key", FirstMissing(doc)>>)
    ELSE IF ~(IsMap(doc["database"]) \/ IsStr(doc["database"]))
    THEN Raise("TypeError", <<"argument of type 'NoneType' is not iterable">>)
    ELSE IF ~ContainsPassword(doc["database"])
    THEN Raise("ValueError", <<"config.yaml lacks database.password">>)
    ELSE Ret(doc)

\* _load_config from line 110 on, given the document and the endpoint's answer
BuildSnapshot(config, resp) ==
    LET pw == PasswordFromResponse(resp)
    IN  IF IsRaise(pw) THEN pw
        ELSE Validate(MergeSecrets(config.doc, LoadSecrets(pw.ret)))

DbParamKeys == <<"host", "port", "name", "user", "password">>

\* Config.get_db_config, lines 158-164, on a snapshot
GetDbConfig(snapshot) ==
    LET db == snapshot["database"]
    IN  IF ~IsMap(db)
        THEN Raise("TypeError", <<"string indices must be integers">>)
        ELSE LET missing == {i \in DOMAIN DbParamKeys : DbParamKeys[i] \notin DOMAIN db.map}
             IN  IF missing # {}
                 THEN Raise("KeyError",
                            <<DbParamKeys[CHOOSE i \in missing : \A j \in missing : i <= j]>>)
                 ELSE Ret([host |-> db.map["host"], port |-> db.map["port"],
                           database |-> db.map["name"], user |-> db.map["user"],
                           password |-> db.map["password"]])

AssignedConfig_clearedOnFailure(old, built) ==
    IF IsRaise(built) THEN EmptyDict ELSE built.ret

\* lines 146 and 152: cls._config = _load_config() assigns only when
\* _load_config returns; when it raises, the attribute keeps its value
AssignedConfig(old, built) ==
    IF IsRaise(built) THEN old ELSE built.ret

CacheHit_never(c) == FALSE

\* line 145: if not cls._config
CacheHit(c) == c # EmptyDict

-----------------------------------------------------------------------------
(* _get_token_from_file, lines 20-39 *)

ResetToken ==
    /\ tokPc' = "none"
    /\ max_retries' = DefaultMaxRetries
    /\ retry_interval' = DefaultRetryInterval
    /\ attempt' = 0
    /\ sleeps' = 0
    /\ slept' = 0
    /\ tokenFile' = NotObserved
    /\ sawUsable' = FALSE
    /\ token' = <<>>

\* entry of the function with the given arguments
EnterTokenLoop(mr, ri) ==
    /\ tokPc' = "loop"
    /\ max_retries' = mr
    /\ retry_interval' = ri
    /\ attempt' = 0
    /\ sleeps' = 0
    /\ slept' = 0
    /\ tokenFile' = NotObserved
    /\ sawUsable' = FALSE
    /\ token' = <<>>

\* a direct call _get_token_from_file(mr, ri)
TokenCall ==
    /\ pc = "idle"
    /\ tokPc # "loop"
    /\ \E mr \in 0..MaxRetriesArg, ri \in 1..MaxIntervalArg : EnterTokenLoop(mr, ri)
    /\ UNCHANGED cfgVars
    /\ UNCHANGED <<dbVars, entVars>>

\* one iteration of the for loop, lines 24-34; f is the state the
\* iteration finds TOKEN_FILE in
TokenAttempt ==
    /\ tokPc = "loop"
    /\ attempt < max_retries
    /\ \E f \in TokenFileStates :
         /\ tokenFile' = f
         /\ attempt' = attempt + 1
         /\ IF TokenUsable(f)
            THEN /\ tokPc' = "returned"
                 /\ token' = Strip(f.text)
                 /\ sawUsable' = TRUE
                 /\ UNCHANGED <<sleeps, slept>>
            ELSE /\ tokPc' = "loop"
                 /\ IF SleepsAfter(attempt, max_retries)
                    THEN sleeps' = sleeps + 1 /\ slept' = slept + retry_interval
                    ELSE UNCHANGED <<sleeps, slept>>
                 /\ UNCHANGED <<token, sawUsable>>
    /\ UNCHANGED <<max_retries, retry_interval>>
    /\ UNCHANGED cfgVars
    /\ UNCHANGED <<dbVars, entVars>>

\* lines 36-39: the loop ran out without returning
TokenExhausted ==
    /\ tokPc = "loop"
    /\ attempt >= max_retries
    /\ tokPc' = "raised"
    /\ UNCHANGED <<max_retries, retry_interval, attempt, sleeps, slept,
                   tokenFile, sawUsable, token>>
    /\ UNCHANGED cfgVars
    /\ UNCHANGED <<dbVars, entVars>>

-----------------------------------------------------------------------------
(* class Config, lines 134-164, and create_app, src/app.py lines 20-76 *)

Loaders == {"load_app_config", "create_app"}
Accessors == {"_get_config", "get_db_config"}
EntryPoints == Loaders \cup Accessors

TheApp == [app |-> "Flask"]

\* what the entry point hands back once Config._config holds snapshot;
\* logsOk: the rest of create_app (log directory, handlers) succeeds
EntryResult(name, snapshot, logsOk) ==
    CASE name = "_get_config" -> Ret(snapshot)
      [] name = "get_db_config" -> GetDbConfig(snapshot)
      [] name = "load_app_config" -> Ret(NoneVal)
      [] name = "create_app" ->
            IF logsOk THEN Ret(TheApp)
            ELSE Raise("PermissionError", <<"/app/logs">>)

-----------------------------------------------------------------------------
(* src/domain/artwork.py *)

Ids == 1..MaxId

\* Optional[bool]: None or a boolean
Absent == [none |-> TRUE]
Bool(b) == [bool |-> b]
Filters == {Absent} \cup {Bool(b) : b \in BOOLEAN}

\* Decimal and float numbers with the given numeric value
Dec(n) == [dec |-> n]
Float(n) == [float |-> n]

\* bool(x) for None, a Decimal or a float
Truthy(x) ==
    IF "dec" \in DOMAIN x THEN x.dec # 0
    ELSE IF "float" \in DOMAIN x THEN x.float # 0
    ELSE FALSE

PriceOf(id) == IF id = 1 THEN Dec(50000) ELSE IF id = 2 THEN Dec(0) ELSE NoneVal
CreatedAt(id) == [ts |-> 10 * id]

\* a row of the artworks table, as RealDictCursor hands it over
Row(id, featured, sold) ==
    [id |-> id, title |-> <<"title", ToString(id)>>, description |-> "desc",
     image_url |-> "http://img", price |-> PriceOf(id), size |-> "F10",
     medium |-> "oil", year |-> 2023, is_featured |-> featured,
     is_sold |-> sold, created_at |-> CreatedAt(id), updated_at |-> NoneVal]

\* the tables: any set of ids, any flags on each row
Tables ==
    UNION { { {Row(i, fl[i][1], fl[i][2]) : i \in S} :
              fl \in [S -> BOOLEAN \X BOOLEAN] } : S \in SUBSET Ids }

NoTable == {}

\* Artwork.from_dict, lines 70-92
FromDict(data) ==
    [id |-> data["id"], title |-> data["title"],
     description |-> data["description"], image_url |-> data["image_url"],
     price |-> IF Truthy(data["price"]) THEN Dec(data["price"].dec) ELSE NoneVal,
     size |-> data["size"], medium |-> data["medium"], year |-> data["year"],
     is_featured |-> data["is_featured"], is_sold |-> data["is_sold"],
     created_at |-> data["created_at"], updated_at |-> data["updated_at"]]

\* datetime.isoformat() if the timestamp is set
IsoFormat(t) == IF "ts" \in DOMAIN t THEN [iso |-> t.ts] ELSE NoneVal

\* Artwork.to_dict, lines 94-112
ToDict(a) ==
    [id |-> a.id, title |-> a.title, description |-> a.description,
     image_url |-> a.image_url,
     price |-> IF Truthy(a.price) THEN Float(a.price.dec) ELSE NoneVal,
     size |-> a.size, medium |-> a.medium, year |-> a.year,
     is_featured |-> a.is_featured, is_sold |-> a.is_sold,
     created_at |-> IsoFormat(a.created_at),
     updated_at |-> IsoFormat(a.updated_at)]

MarkAsSold_keepsFeatured(a) == [a EXCEPT !.is_sold = TRUE]

\* Artwork.mark_as_sold, lines 66-68
MarkAsSold(a) ==
    LET sold == [a EXCEPT !.is_sold = TRUE]
    IN  IF sold.is_featured THEN [sold EXCEPT !.is_featured = FALSE] ELSE sold

-----------------------------------------------------------------------------
(* src/repositories/artwork_repository.py *)

\* database.py line 67: cursor_factory or RealDictCursor
CursorFactory(arg) == IF arg = "None" THEN "RealDictCursor" ELSE arg

\* the row as the cursor hands it over: a dict keyed by column name
\* (RealDictCursor) or a tuple of the selected columns
Fetched(factory, row, columns) ==
    IF factory = "RealDictCursor"
    THEN [dictrow |-> [c \in {columns[i] : i \in DOMAIN columns} |-> row[c]]]
    ELSE [tuplerow |-> [i \in DOMAIN columns |-> row[columns[i]]]]

AllColumns ==
    <<"id", "title", "description", "image_url", "price", "size", "medium",
      "year", "is_featured", "is_sold", "created_at", "updated_at">>

\* row[0]: the first column of a tuple, KeyError on a dict row
Index0(fetched) ==
    IF "tuplerow" \in DOMAIN fetched
    THEN Ret(fetched.tuplerow[1])
    ELSE Raise("KeyError", <<"0">>)

Matches_ignoresSold(row, featured, sold) ==
    featured # Absent => row["is_featured"] = featured.bool

\* lines 31-42: WHERE 1=1 [AND is_featured = %s] [AND is_sold = %s]
Matches(row, featured, sold) ==
    /\ featured # Absent => row["is_featured"] = featured.bool
    /\ sold # Absent => row["is_sold"] = sold.bool

\* ORDER BY created_at DESC
RECURSIVE OrderByCreatedDesc(_)
OrderByCreatedDesc(rows) ==
    IF rows = {} THEN <<>>
    ELSE LET first == CHOOSE r \in rows :
                        \A q \in rows : q["created_at"].ts <= r["created_at"].ts
         IN  <<first>> \o OrderByCreatedDesc(rows \ {first})

\* find_all, lines 31-47
FindAll(table, featured, sold) ==
    LET results == OrderByCreatedDesc({r \in table : Matches(r, featured, sold)})
    IN  Ret([i \in DOMAIN results |->
               FromDict(Fetched(CursorFactory("RealDictCursor"), results[i],
                                AllColumns).dictrow)])

\* fetchone() of SELECT ... WHERE id = %s
SelectById(table, id) ==
    IF \E r \in table : r["id"] = id
    THEN CHOOSE r \in table : r["id"] = id
    ELSE NoneVal

\* find_by_id, lines 58-64
FindById(table, id) ==
    LET row == SelectById(table, id)
    IN  IF row # NoneVal
        THEN Ret(FromDict(Fetched(CursorFactory("RealDictCursor"), row,
                                  AllColumns).dictrow))
        ELSE Ret(NoneVal)

\* find_title_by_id, lines 75-82
FindTitleById(table, id) ==
    LET row == SelectById(table, id)
    IN  IF row # NoneVal
        THEN LET title == Index0(Fetched(CursorFactory("None"), row, <<"title">>))
             IN  title
        ELSE Ret(NoneVal)

RepoFunctions == {"find_all", "find_by_id", "find_title_by_id"}

\* the body of the repository function, run on the table the query finds
RepoBody(c, table) ==
    CASE c.fn = "find_all" -> FindAll(table, c.featured, c.sold)
      [] c.fn = "find_by_id" -> FindById(table, c.id)
      [] c.fn = "find_title_by_id" -> FindTitleById(table, c.id)

-----------------------------------------------------------------------------
(* src/services/artwork_service.py and src/routes/artwork_routes.py *)

NotFoundMsg(id) == <<"artwork ID ", ToString(id), " not found">>

ServiceGetArtworkById_returnsNone(found, id) == found

\* get_artwork_by_id, lines 51-54, given the outcome of find_by_id
ServiceGetArtworkById(found, id) ==
    IF IsRaise(found) THEN found
    ELSE IF found.ret = NoneVal
    THEN Raise("ValueError", NotFoundMsg(id))
    ELSE found

\* classes under BaseException that are not under Exception
BaseOnly == {"KeyboardInterrupt"}
IsException(e) == e.exc \notin BaseOnly

RouteGetArtwork_noNoneCheck(s, id) ==
    IF IsRaise(s)
    THEN IF s.exc = "ValueError"
         THEN [status |-> 404, body |-> [error |-> s.msg]]
         ELSE IF IsException(s)
         THEN [status |-> 500, body |-> [error |-> s.msg]]
         ELSE [unhandled |-> s]
    ELSE IF s.ret = NoneVal
    THEN [status |-> 500,
          body |-> [error |-> <<"'NoneType' object has no attribute 'to_dict'">>]]
    ELSE [status |-> 200, body |-> ToDict(s.ret)]

\* get_artwork, lines 58-71, given the outcome of the service call
RouteGetArtwork(s, id) ==
    IF IsRaise(s)
    THEN IF s.exc = "ValueError"
         THEN [status |-> 404, body |-> [error |-> s.msg]]
         ELSE IF IsException(s)
         THEN [status |-> 500, body |-> [error |-> s.msg]]
         ELSE [unhandled |-> s]
    ELSE IF s.ret = NoneVal
    THEN [status |-> 404, body |-> [error |-> NotFoundMsg(id)]]
    ELSE [status |-> 200, body |-> ToDict(s.ret)]

\* the requests: a repository function called directly, the service's
\* get_artwork_by_id, or GET /api/artworks/<id> with the real service
Calls ==
    {[entry |-> "repository", fn |-> "find_all", id |-> 0, featured |-> f, sold |-> s]
        : f \in Filters, s \in Filters}
    \cup {[entry |-> e, fn |-> "find_by_id", id |-> i, featured |-> Absent, sold |-> Absent]
        : e \in {"repository", "service", "route"}, i \in Ids \cup {MaxId + 1}}
    \cup {[entry |-> "repository", fn |-> "find_title_by_id", id |-> i,
           featured |-> Absent, sold |-> Absent] : i \in Ids \cup {MaxId + 1}}

NoCall == [entry |-> "none"]

\* what a substituted service (app.artwork_service is replaceable) may hand
\* to the route for the id
StubOutcomes(id) ==
    {Ret(NoneVal), Raise("ValueError", NotFoundMsg(id)),
     Raise("RuntimeError", <<"boom">>),
     Raise("OperationalError", <<"could not connect">>)}
    \cup {Ret(FromDict(Row(id, f, s))) : f \in BOOLEAN, s \in BOOLEAN}

\* the values a client may give to ?featured= and ?sold=
QueryValues == {"true", "True", "false", "FALSE", "yes", ""}

\* request.args.get(name): None when the parameter is not in the URL
QueryParams == {NoneVal} \cup {[text |-> v] : v \in QueryValues}

\* str.lower()
Lower(v) ==
    CASE v = "True" -> "true"
      [] v = "FALSE" -> "false"
      [] OTHER -> v

\* get_artworks, lines 26-32: None when the parameter is absent,
\* param.lower() == "true" otherwise
ParseFlag(param) ==
    IF param = NoneVal THEN Absent
    ELSE Bool(Lower(param.text) = "true")

\* what a substituted service may hand to GET /api/artworks: a list of
\* entities, a list holding something that has no to_dict, or an error
StubListOutcomes ==
    {Ret(<<>>), Ret(<<NoneVal>>),
     Raise("OperationalError", <<"could not connect">>),
     Raise("DatabaseError", <<"query failed">>),
     Raise("ValueError", <<"bad value">>)}
    \cup {Ret(<<FromDict(Row(1, f, s))>>) : f \in BOOLEAN, s \in BOOLEAN}

\* get_artworks, lines 35-46, given the outcome of get_all_artworks: the
\* list comprehension of line 40 runs inside the try block
RouteGetArtworks(s) ==
    IF IsRaise(s)
    THEN IF IsException(s)
         THEN [status |-> 500, body |-> [error |-> s.msg]]
         ELSE [unhandled |-> s]
    ELSE IF \E i \in DOMAIN s.ret : s.ret[i] = NoneVal
    THEN [status |-> 500,
          body |-> [error |-> <<"'NoneType' object has no attribute 'to_dict'">>]]
    ELSE [status |-> 200, body |-> [i \in DOMAIN s.ret |-> ToDict(s.ret[i])]]

-----------------------------------------------------------------------------
(* src/repositories/database.py: Database.get_connection, lines 36-47,
   around Database.get_cursor, lines 66-71, around the repository body *)

\* the connection of the scope: whether connect returned it, whether it has
\* been closed, its cursor, the calls made on it and their effect
NoConn == [opened |-> FALSE, closed |-> FALSE, cursor |-> "none", executes |-> 0,
           commits |-> 0, rollbacks |-> 0, rollbackRaised |-> FALSE,
           closes |-> 0, committed |-> FALSE]

DbIdle ==
    /\ call = NoCall
    /\ dbPc = "idle"
    /\ conn = NoConn
    /\ openConns = 0
    /\ artworks = NoTable
    /\ value = NoneVal
    /\ origExc = NoneVal
    /\ exc = NoneVal
    /\ repoCalls = 0
    /\ repoResult = NoneVal
    /\ svcResult = NoneVal
    /\ httpResp = NoneVal
    /\ lastErrorBody = NoneVal

\* no entity has been constructed
EntIdle ==
    /\ rowData = NoneVal
    /\ artwork = NoneVal
    /\ markCalls = 0
    /\ transport = NoneVal

ExitPath_noExcept(e) == IF e = NoneVal THEN "commit" ELSE "close"

ExitPath_retriesBody(e) == IF e = NoneVal THEN "commit" ELSE "body"

\* where control goes when the body of the scope is left with error e
\* (None: normally): line 40, the except clause of line 41, or straight to
\* the finally clause
ExitPath(e) ==
    IF e = NoneVal THEN "commit"
    ELSE IF IsException(e) THEN "rollback"
    ELSE "close"

AfterRollback_noFinally(rolledBack) == IF rolledBack THEN "close" ELSE "done"

\* lines 42-47 after conn.rollback(): the finally clause runs whether or
\* not the rollback raised
AfterRollback(rolledBack) == "close"

\* the outcome leaves the repository and passes through the callers
Finish(outcome) ==
    /\ dbPc' = "done"
    /\ repoResult' = outcome
    /\ svcResult' = IF call.entry \in {"service", "route"}
                    THEN ServiceGetArtworkById(outcome, call.id)
                    ELSE NoneVal
    /\ httpResp' = IF call.entry = "route"
                   THEN RouteGetArtwork(ServiceGetArtworkById(outcome, call.id), call.id)
                   ELSE NoneVal

\* a request arrives at the started application; the service calls the
\* repository (line 51)
DbCall ==
    /\ appCreated
    /\ pc = "idle" /\ dbPc = "idle"
    /\ \E c \in Calls : call' = c
    /\ dbPc' = "connect"
    /\ repoCalls' = 1
    /\ UNCHANGED <<conn, openConns, artworks, value, origExc, exc, repoResult,
                   svcResult, httpResp>>
    /\ UNCHANGED <<cfgVars, tokVars, entVars, lastErrorBody>>

\* line 38: Config.get_db_config() on the cached snapshot, then
\* psycopg2.connect; an error here leaves conn None, so lines 42 and 46
\* skip rollback and close
Connect ==
    /\ dbPc = "connect"
    /\ CacheHit(Config_config)
    /\ LET params == GetDbConfig(Config_config)
       IN  IF IsRaise(params)
           THEN /\ Finish(params)
                /\ origExc' = params /\ exc' = params
                /\ UNCHANGED <<conn, openConns>>
           ELSE \E connected \in BOOLEAN :
                  IF connected
                  THEN /\ conn' = [NoConn EXCEPT !.opened = TRUE]
                       /\ openConns' = openConns + 1
                       /\ dbPc' = "body"
                       /\ UNCHANGED <<origExc, exc, repoResult, svcResult, httpResp>>
                  ELSE LET e == Raise("OperationalError", <<"could not connect">>)
                       IN  /\ Finish(e)
                           /\ origExc' = e /\ exc' = e
                           /\ UNCHANGED <<conn, openConns>>
    /\ UNCHANGED <<call, artworks, value, repoCalls>>
    /\ UNCHANGED <<cfgVars, tokVars, entVars, lastErrorBody>>

BodyFaults == {"none", "cursor", "execute", "interrupt"}

\* database.py line 67 to 71 around the repository's with-block: the
\* cursor is created, the query runs on the table, the rows are mapped,
\* the cursor is closed
Body ==
    /\ dbPc = "body"
    /\ \E fault \in BodyFaults, table \in Tables :
         LET out == CASE fault = "cursor" ->
                            Raise("InterfaceError", <<"cursor failed">>)
                      [] fault = "execute" ->
                            Raise("DatabaseError", <<"query failed">>)
                      [] fault = "interrupt" ->
                            Raise("KeyboardInterrupt", <<>>)
                      [] OTHER -> RepoBody(call, table)
         IN  /\ fault # "none" => table = NoTable
             /\ artworks' = table
             /\ conn' = [conn EXCEPT !.cursor = IF fault = "cursor" THEN "none"
                                                ELSE "closed",
                                     !.executes = IF fault = "cursor" THEN @
                                                  ELSE @ + 1]
             /\ value' = IF IsRaise(out) THEN NoneVal ELSE out.ret
             /\ origExc' = IF IsRaise(out) THEN out ELSE NoneVal
             /\ exc' = IF IsRaise(out) THEN out ELSE NoneVal
             /\ dbPc' = ExitPath(IF IsRaise(out) THEN out ELSE NoneVal)
    /\ UNCHANGED <<call, openConns, repoCalls, repoResult, svcResult, httpResp>>
    /\ UNCHANGED <<cfgVars, tokVars, entVars, lastErrorBody>>

\* line 40: conn.commit(); if it raises, the except clause of line 41 runs
Commit ==
    /\ dbPc = "commit"
    /\ \E ok \in BOOLEAN :
         IF ok
         THEN /\ conn' = [conn EXCEPT !.commits = @ + 1, !.committed = TRUE]
              /\ dbPc' = "close"
              /\ UNCHANGED <<origExc, exc>>
         ELSE LET e == Raise("OperationalError", <<"commit failed">>)
              IN  /\ conn' = [conn EXCEPT !.commits = @ + 1]
                  /\ origExc' = e /\ exc' = e
                  /\ dbPc' = ExitPath(e)
    /\ UNCHANGED <<call, openConns, artworks, value, repoCalls, repoResult,
                   svcResult, httpResp>>
    /\ UNCHANGED <<cfgVars, tokVars, entVars, lastErrorBody>>

\* lines 42-44: conn.rollback(), then the error is re-raised; if the
\* rollback raises, its error is the one that propagates
Rollback ==
    /\ dbPc = "rollback"
    /\ \E ok \in BOOLEAN :
         /\ conn' = [conn EXCEPT !.rollbacks = @ + 1, !.rollbackRaised = ~ok]
         /\ exc' = IF ok THEN exc
                   ELSE Raise("OperationalError", <<"rollback failed">>)
         /\ IF AfterRollback(ok) = "close"
            THEN /\ dbPc' = "close"
                 /\ UNCHANGED <<repoResult, svcResult, httpResp>>
            ELSE Finish(exc')
    /\ UNCHANGED <<call, openConns, artworks, value, origExc, repoCalls>>
    /\ UNCHANGED <<cfgVars, tokVars, entVars, lastErrorBody>>

\* lines 45-47: conn.close(), then the scope is left
Close ==
    /\ dbPc = "close"
    /\ conn' = [conn EXCEPT !.closes = @ + 1, !.closed = TRUE]
    /\ openConns' = openConns - 1
    /\ Finish(IF exc = NoneVal THEN Ret(value) ELSE exc)
    /\ UNCHANGED <<call, artworks, value, origExc, exc, repoCalls>>
    /\ UNCHANGED <<cfgVars, tokVars, entVars, lastErrorBody>>

\* GET /api/artworks/<id> served by a substituted service
RouteWithStub ==
    /\ appCreated
    /\ pc = "idle" /\ dbPc = "idle"
    /\ \E i \in Ids \cup {MaxId + 1} :
         /\ call' = [entry |-> "route_stub", fn |-> "none", id |-> i,
                     featured |-> Absent, sold |-> Absent]
         /\ \E s \in StubOutcomes(i) :
              /\ svcResult' = s
              /\ httpResp' = RouteGetArtwork(s, i)
    /\ dbPc' = "done"
    /\ UNCHANGED <<conn, openConns, artworks, value, origExc, exc, repoCalls,
                   repoResult>>
    /\ UNCHANGED <<cfgVars, tokVars, entVars, lastErrorBody>>

\* GET /api/artworks?featured=..&sold=.. served by a substituted service;
\* call.featured and call.sold are the arguments get_all_artworks received
RouteListWithStub ==
    /\ appCreated
    /\ pc = "idle" /\ dbPc = "idle"
    /\ \E fp \in QueryParams, sp \in QueryParams :
         call' = [entry |-> "route_list_stub", fn |-> "none", id |-> 0,
                  featured |-> ParseFlag(fp), sold |-> ParseFlag(sp),
                  featured_param |-> fp, sold_param |-> sp]
    /\ \E s \in StubListOutcomes :
         /\ svcResult' = s
         /\ httpResp' = RouteGetArtworks(s)
    /\ dbPc' = "done"
    /\ UNCHANGED <<conn, openConns, artworks, value, origExc, exc, repoCalls,
                   repoResult>>
    /\ UNCHANGED <<cfgVars, tokVars, entVars, lastErrorBody>>

\* the response has reached the client; a 500 body is remembered
RouteReturn ==
    /\ dbPc = "done"
    /\ call.entry \in {"route_stub", "route_list_stub"}
    /\ lastErrorBody' = IF "status" \in DOMAIN httpResp /\ httpResp.status = 500
                        THEN httpResp.body
                        ELSE lastErrorBody
    /\ call' = NoCall
    /\ dbPc' = "idle"
    /\ svcResult' = NoneVal
    /\ httpResp' = NoneVal
    /\ UNCHANGED <<conn, openConns, artworks, value, origExc, exc, repoCalls,
                   repoResult>>
    /\ UNCHANGED <<cfgVars, tokVars, entVars>>

\* the outcome has been handed to the caller
DbReturn ==
    /\ dbPc = "done"
    /\ call' = NoCall
    /\ dbPc' = "idle"
    /\ conn' = NoConn
    /\ artworks' = NoTable
    /\ value' = NoneVal
    /\ origExc' = NoneVal
    /\ exc' = NoneVal
    /\ repoCalls' = 0
    /\ repoResult' = NoneVal
    /\ svcResult' = NoneVal
    /\ httpResp' = NoneVal
    /\ UNCHANGED openConns
    /\ UNCHANGED <<cfgVars, tokVars, entVars, lastErrorBody>>

Init ==
    /\ op = "none"
    /\ pc = "idle"
    /\ CONFIG_FILE = NotRead
    /\ Config_config = EmptyDict
    /\ oldConfig = EmptyDict
    /\ docReads = 0
    /\ httpRequests = 0
    /\ request = NoneVal
    /\ response = NoneVal
    /\ result = NoneVal
    /\ stored = FALSE
    /\ appCreated = FALSE
    /\ tokPc = "none"
    /\ max_retries = DefaultMaxRetries
    /\ retry_interval = DefaultRetryInterval
    /\ attempt = 0
    /\ sleeps = 0
    /\ slept = 0
    /\ tokenFile = NotObserved
    /\ sawUsable = FALSE
    /\ token = <<>>
    /\ DbIdle
    /\ EntIdle

\* Config._get_config / Config.get_db_config when the snapshot is cached:
\* line 145 is false, line 147 returns cls._config
CachedAccess ==
    /\ pc = "idle" /\ tokPc = "none" /\ dbPc = "idle"
    /\ CacheHit(Config_config)
    /\ \E name \in Accessors :
         /\ op' = name
         /\ result' = EntryResult(name, Config_config, TRUE)
    /\ pc' = "done"
    /\ oldConfig' = Config_config
    /\ UNCHANGED <<CONFIG_FILE, Config_config, docReads, httpRequests, request,
                   response, stored, appCreated>>
    /\ UNCHANGED tokVars
    /\ UNCHANGED <<dbVars, entVars>>

\* an entry point that runs _load_config: load_app_config and create_app
\* always, the accessors when line 145 finds no snapshot.  This step is
\* _load_config_file (lines 70-85) and lines 44-52 of _get_password_from_api.
StartLoad ==
    /\ pc = "idle" /\ tokPc = "none" /\ dbPc = "idle"
    /\ \E name \in EntryPoints, f \in ConfigFileStates :
         /\ name \in Accessors => ~CacheHit(Config_config)
         /\ op' = name
         /\ CONFIG_FILE' = f
         /\ LET config == LoadConfigFile(f)
                url == IF IsRaise(config) THEN config ELSE ApiUrl(config.ret)
            IN  IF IsRaise(url)
                THEN /\ pc' = "done"
                     /\ result' = url
                     /\ UNCHANGED tokVars
                ELSE /\ pc' = "token"
                     /\ result' = NoneVal
                     /\ EnterTokenLoop(DefaultMaxRetries, DefaultRetryInterval)
    /\ oldConfig' = Config_config
    /\ docReads' = 1
    /\ UNCHANGED <<Config_config, httpRequests, request, response, stored,
                   appCreated>>
    /\ UNCHANGED <<dbVars, entVars>>

\* line 52 raised: the RuntimeError of line 36 leaves _load_config
TokenFailed ==
    /\ pc = "token" /\ tokPc = "raised"
    /\ pc' = "done"
    /\ result' = Raise("RuntimeError", <<"Token file not found">>)
    /\ UNCHANGED <<op, CONFIG_FILE, Config_config, oldConfig, docReads,
                   httpRequests, request, response, stored, appCreated>>
    /\ ResetToken
    /\ UNCHANGED <<dbVars, entVars>>

\* lines 54-67 with the token, then _load_secrets, lines 112-131 of
\* _load_config, and the assignment of line 146 / 152
FetchPassword ==
    /\ pc = "token" /\ tokPc = "returned"
    /\ \E resp \in Responses, logsOk \in BOOLEAN :
         /\ op # "create_app" => logsOk
         /\ LET config == LoadConfigFile(CONFIG_FILE).ret
                built == BuildSnapshot(config, resp)
            IN  /\ request' = [url |-> ApiUrl(config).ret, bearer |-> token]
                /\ response' = resp
                /\ Config_config' = AssignedConfig(Config_config, built)
                /\ IF IsRaise(built)
                   THEN /\ result' = built
                        /\ UNCHANGED <<stored, appCreated>>
                   ELSE /\ stored' = TRUE
                        /\ result' = EntryResult(op, built.ret, logsOk)
                        /\ appCreated' = (appCreated \/ (op = "create_app" /\ logsOk))
    /\ httpRequests' = httpRequests + 1
    /\ pc' = "done"
    /\ ResetToken
    /\ UNCHANGED <<op, CONFIG_FILE, oldConfig, docReads>>
    /\ UNCHANGED <<dbVars, entVars>>

\* the entry point has handed its outcome to the caller
Return ==
    /\ pc = "done"
    /\ pc' = "idle"
    /\ op' = "none"
    /\ CONFIG_FILE' = NotRead
    /\ oldConfig' = EmptyDict
    /\ docReads' = 0
    /\ httpRequests' = 0
    /\ request' = NoneVal
    /\ response' = NoneVal
    /\ result' = NoneVal
    /\ stored' = FALSE
    /\ UNCHANGED <<Config_config, appCreated>>
    /\ UNCHANGED tokVars
    /\ UNCHANGED <<dbVars, entVars>>

Next ==
    \/ CachedAccess
    \/ StartLoad
    \/ TokenAttempt
    \/ TokenExhausted
    \/ TokenFailed
    \/ FetchPassword
    \/ Return

Spec == Init /\ [][Next]_vars

NextToken ==
    \/ TokenCall
    \/ TokenAttempt
    \/ TokenExhausted

\* the loop is straight-line code: an iteration that can run does run
SpecToken == Init /\ [][NextToken]_vars /\ WF_vars(TokenAttempt) /\ WF_vars(TokenExhausted)

\* the snapshots a successful load stores
LoadedSnapshots ==
    {BuildSnapshot([doc |-> d], r).ret :
        <<d, r>> \in {x \in ConfigDocs \X Responses :
                        IsRet(BuildSnapshot([doc |-> x[1]], x[2]))}}

\* the application has started: create_app (src/app.py line 80) has stored
\* a snapshot; nothing else is in progress
InitDb ==
    /\ op = "none"
    /\ pc = "idle"
    /\ CONFIG_FILE = NotRead
    /\ Config_config \in LoadedSnapshots
    /\ oldConfig = EmptyDict
    /\ docReads = 0
    /\ httpRequests = 0
    /\ request = NoneVal
    /\ response = NoneVal
    /\ result = NoneVal
    /\ stored = FALSE
    /\ appCreated = TRUE
    /\ tokPc = "none"
    /\ max_retries = DefaultMaxRetries
    /\ retry_interval = DefaultRetryInterval
    /\ attempt = 0
    /\ sleeps = 0
    /\ slept = 0
    /\ tokenFile = NotObserved
    /\ sawUsable = FALSE
    /\ token = <<>>
    /\ DbIdle
    /\ EntIdle

NextDb ==
    \/ DbCall
    \/ Connect
    \/ Body
    \/ Commit
    \/ Rollback
    \/ Close
    \/ RouteWithStub
    \/ DbReturn

SpecDb == InitDb /\ [][NextDb]_vars

\* the process as deployed: configuration entry points while no request is
\* being served, and requests once create_app has returned the application
\* (src/app.py line 80)
NextApp ==
    \/ Next
    \/ NextDb

SpecApp == Init /\ [][NextApp]_vars

\* Artwork(id=.., title=.., .., is_featured=.., is_sold=..): the dataclass
\* stores the arguments as given (lines 35-46)
Construct ==
    /\ pc = "idle" /\ dbPc = "idle"
    /\ artwork = NoneVal
    /\ \E i \in Ids, f \in BOOLEAN, s \in BOOLEAN : artwork' = Row(i, f, s)
    /\ UNCHANGED <<rowData, markCalls, transport>>
    /\ UNCHANGED <<cfgVars, tokVars, dbVars>>

\* Artwork.from_dict(row) on a row of the artworks table
FromDictCall ==
    /\ pc = "idle" /\ dbPc = "idle"
    /\ artwork = NoneVal
    /\ \E i \in Ids, f \in BOOLEAN, s \in BOOLEAN :
         /\ rowData' = Row(i, f, s)
         /\ artwork' = FromDict(Row(i, f, s))
    /\ UNCHANGED <<markCalls, transport>>
    /\ UNCHANGED <<cfgVars, tokVars, dbVars>>

\* artwork.mark_as_sold()
MarkAsSoldCall ==
    /\ artwork # NoneVal
    /\ markCalls < MaxMarks
    /\ artwork' = MarkAsSold(artwork)
    /\ markCalls' = markCalls + 1
    /\ UNCHANGED <<rowData, transport>>
    /\ UNCHANGED <<cfgVars, tokVars, dbVars>>

\* artwork.to_dict()
ToDictCall ==
    /\ artwork # NoneVal
    /\ transport' = ToDict(artwork)
    /\ UNCHANGED <<rowData, artwork, markCalls>>
    /\ UNCHANGED <<cfgVars, tokVars, dbVars>>

\* the entity is dropped
Discard ==
    /\ artwork # NoneVal
    /\ rowData' = NoneVal
    /\ artwork' = NoneVal
    /\ markCalls' = 0
    /\ transport' = NoneVal
    /\ UNCHANGED <<cfgVars, tokVars, dbVars>>

NextEntity ==
    \/ Construct
    \/ FromDictCall
    \/ MarkAsSoldCall
    \/ ToDictCall
    \/ Discard

SpecEntity == Init /\ [][NextEntity]_vars

\* the two endpoints with a substituted service, as the integration tests
\* run them
NextRoute ==
    \/ RouteWithStub
    \/ RouteListWithStub
    \/ RouteReturn

SpecRoute == InitDb /\ [][NextRoute]_vars

-----------------------------------------------------------------------------
(* Properties of _get_token_from_file *)

\* the token file can be read and holds something besides whitespace
GoodTokenFile(f) ==
    f.exists /\ f.readable /\ \E i \in DOMAIN f.text : f.text[i] \notin Whitespace

\* t is s without its leading and trailing whitespace
IsStripped(t, s) ==
    /\ t # <<>>
    /\ t[1] \notin Whitespace
    /\ t[Len(t)] \notin Whitespace
    /\ \E i \in 1..Len(s) :
         /\ i + Len(t) - 1 <= Len(s)
         /\ t = SubSeq(s, i, i + Len(t) - 1)
         /\ \A j \in 1..Len(s) : (j < i \/ j > i + Len(t) - 1) => s[j] \in Whitespace

SleepsBetween(n, mr) == IF n < mr THEN n ELSE IF mr > 0 THEN mr - 1 ELSE 0

TokenLoaderInv ==
    /\ attempt <= max_retries
    /\ slept = sleeps * retry_interval
    /\ tokPc = "loop" =>
         /\ token = <<>>
         /\ attempt > 0 => ~GoodTokenFile(tokenFile)
         /\ sleeps = SleepsBetween(attempt, max_retries)
    /\ tokPc = "returned" =>
         /\ attempt >= 1
         /\ GoodTokenFile(tokenFile)
         /\ IsStripped(token, tokenFile.text)
         /\ sleeps = attempt - 1
    /\ tokPc = "raised" =>
         /\ attempt = max_retries
         /\ ~sawUsable
         /\ attempt > 0 => ~GoodTokenFile(tokenFile)
         /\ token = <<>>
         /\ sleeps = SleepsBetween(max_retries, max_retries)

\* C3: _get_token_from_file terminates after at most max_retries attempts,
\* sleeps retry_interval between consecutive attempts and never after the
\* last one, returns the stripped token at the first attempt that finds a
\* readable file with a non-blank text, and otherwise raises RuntimeError.
C3_TokenLoaderBounded ==
    /\ []TokenLoaderInv
    /\ [][tokPc = "loop" /\ attempt' = attempt + 1 =>
            (GoodTokenFile(tokenFile') <=> tokPc' = "returned")]_vars
    /\ (tokPc = "loop") ~> (tokPc \in {"returned", "raised"})

\* a token returned at the third attempt, after two sleeps
C3_Witness == tokPc = "returned" /\ attempt = 3 /\ sleeps = 2 /\ slept = 2 * retry_interval

-----------------------------------------------------------------------------
(* Properties of the configuration load *)

Loading == pc = "done" /\ docReads = 1
Asked == response # NoneVal

\* the endpoint's answer is a non-2xx status, a network failure, or a body
\* without a (non-empty) password field
BadAnswer(r) ==
    \/ "net" \in DOMAIN r
    \/ /\ "status" \in DOMAIN r
       /\ \/ r.status < 200 \/ r.status > 299
          \/ "json" \in DOMAIN r.body
          \/ "password" \notin DOMAIN r.body.obj
          \/ r.body.obj["password"] = ""

\* C4: a non-2xx status, a network failure or a missing / empty password
\* field makes the load raise, and no snapshot is built from that answer.
C4_SecretFailureIsFatal ==
    (Loading /\ Asked /\ BadAnswer(response)) =>
        (IsRaise(result) /\ ~stored /\ Config_config = oldConfig)

\* the sections are there and the database section is a mapping with a
\* non-empty password
FullyValidated(c) ==
    /\ TopKeys \subseteq DOMAIN c
    /\ IsMap(c["database"])
    /\ "password" \in DOMAIN c["database"].map
    /\ c["database"].map["password"] # ""

\* C5: Config._config is empty or fully validated; a failed load stores
\* nothing; create_app returns an application only after a successful load.
C5_SnapshotValidated ==
    /\ Config_config = EmptyDict \/ FullyValidated(Config_config)
    /\ (Loading /\ ~stored) => Config_config = oldConfig
    /\ (pc = "done" /\ op = "create_app" /\ IsRet(result)) => stored
    /\ appCreated => Config_config # EmptyDict

LacksSection(f) == "doc" \in DOMAIN f /\ ~(TopKeys \subseteq DOMAIN f.doc)

NamesMissingSection(r, f) ==
    /\ IsRaise(r)
    /\ r.exc = "ValueError"
    /\ Len(r.msg) = 2
    /\ r.msg[2] \in TopKeys \ DOMAIN f.doc

\* C6: when config.yaml lacks server, database or secrets_api, building the
\* snapshot raises ValueError naming the missing section and nothing is
\* stored (stated for the loads whose secret resolution succeeded, the ones
\* that reach the validation).
C6_MissingSectionRaises ==
    (Loading /\ Asked /\ ~BadAnswer(response) /\ LacksSection(CONFIG_FILE)) =>
        (NamesMissingSection(result, CONFIG_FILE) /\ ~stored)

BaseDbFields == {"host", "port", "name", "user"}

\* the database section of the document read, as a dict ({} when it is
\* absent or not a mapping)
BaseDatabase(f) ==
    IF "database" \in DOMAIN f.doc /\ IsMap(f.doc["database"])
    THEN f.doc["database"].map
    ELSE EmptyDict

\* C7: after a successful load the snapshot's database password is the one
\* the endpoint returned, whatever password the document had; host, port,
\* name and user are the document's; get_db_config hands out the same.
C7_PasswordFromEndpoint ==
    (Loading /\ stored) =>
        /\ IsMap(Config_config["database"])
        /\ LET db == Config_config["database"].map
               base == BaseDatabase(CONFIG_FILE)
           IN  /\ "password" \in DOMAIN db
               /\ db["password"] = response.body.obj["password"]
               /\ \A k \in BaseDbFields :
                    /\ k \in DOMAIN db <=> k \in DOMAIN base
                    /\ k \in DOMAIN db => db[k] = base[k]
               /\ (op = "get_db_config" /\ IsRet(result)) =>
                    /\ result.ret.password = response.body.obj["password"]
                    /\ result.ret.host = base["host"]
                    /\ result.ret.port = base["port"]
                    /\ result.ret.database = base["name"]
                    /\ result.ret.user = base["user"]

\* C8: once a snapshot is cached, _get_config and get_db_config hand it out
\* without reading config.yaml or the token file, without a request to the
\* endpoint and without writing Config._config; only load_app_config
\* (directly or from create_app) replaces a cached snapshot.
C8_CachedSnapshot ==
    /\ [][(pc = "idle" /\ Config_config # EmptyDict /\ op' \in Accessors) =>
            /\ pc' = "done"
            /\ Config_config' = Config_config
            /\ docReads' = 0 /\ httpRequests' = 0
            /\ tokPc' = "none" /\ attempt' = 0
            /\ request' = NoneVal
            /\ op' = "_get_config" => result' = Ret(Config_config)
            /\ (op' = "get_db_config" /\ IsRet(result')) =>
                 result'.ret.password = Config_config["database"].map["password"]]_vars
    /\ [][(Config_config # EmptyDict /\ Config_config' # Config_config) =>
            op' \in Loaders]_vars

\* an accessor answered from the cached snapshot
C8_Witness ==
    /\ pc = "done" /\ op = "get_db_config" /\ docReads = 0
    /\ oldConfig # EmptyDict /\ IsRet(result)

-----------------------------------------------------------------------------
(* Properties of the connection scope *)

ScopeLeft == dbPc = "done" /\ conn.opened

RollbackError == Raise("OperationalError", <<"rollback failed">>)

\* C1 as stated: a scope whose body and commit do not raise commits and
\* does not roll back; if the body or the commit raises, rollback is
\* called, nothing is committed and the original error reaches the caller.
C1_CommitOrRollback ==
    ScopeLeft =>
        /\ origExc = NoneVal =>
             conn.commits = 1 /\ conn.rollbacks = 0 /\ conn.committed
        /\ origExc # NoneVal =>
             conn.rollbacks = 1 /\ ~conn.committed /\ repoResult = origExc

\* C1 amended: as C1 for an error of class Exception whose rollback does
\* not raise; if the rollback raises, the rollback's error is the one that
\* reaches the caller; an error outside class Exception (KeyboardInterrupt)
\* skips commit and rollback, the connection is closed uncommitted and the
\* error reaches the caller.
C1_CommitOrRollbackAmended ==
    ScopeLeft =>
        /\ origExc = NoneVal =>
             /\ conn.commits = 1 /\ conn.rollbacks = 0 /\ conn.committed
             /\ repoResult = Ret(value)
        /\ (origExc # NoneVal /\ origExc.exc \notin BaseOnly) =>
             /\ conn.rollbacks = 1 /\ ~conn.committed
             /\ ~conn.rollbackRaised => repoResult = origExc
             /\ conn.rollbackRaised => repoResult = RollbackError
        /\ (origExc # NoneVal /\ origExc.exc \in BaseOnly) =>
             /\ conn.commits = 0 /\ conn.rollbacks = 0 /\ ~conn.committed
             /\ repoResult = origExc

\* the commit raised, the rollback was made and the commit's error came out
C1_Witness ==
    /\ ScopeLeft
    /\ conn.commits = 1 /\ conn.rollbacks = 1 /\ ~conn.committed
    /\ origExc = Raise("OperationalError", <<"commit failed">>)
    /\ repoResult = origExc

\* C2: a connection that was opened is closed exactly once on every way
\* out of the scope (return, error in the body, in the commit, in the
\* rollback), so no connection stays open after any sequence of repository
\* operations.
C2_ClosedExactlyOnce ==
    /\ conn.closes <= 1
    /\ conn.closed <=> conn.closes = 1
    /\ openConns = IF conn.opened /\ ~conn.closed THEN 1 ELSE 0
    /\ dbPc \in {"idle", "done"} =>
         /\ openConns = 0
         /\ conn.opened => (conn.closes = 1 /\ conn.cursor # "open")

\* the rollback itself raised and the connection was still closed once
C2_Witness ==
    /\ ScopeLeft
    /\ conn.rollbackRaised
    /\ conn.closes = 1
    /\ openConns = 0

-----------------------------------------------------------------------------
(* Properties of the service and the route *)

NotFoundOutcome(s) ==
    \/ IsRet(s) /\ s.ret = NoneVal
    \/ IsRaise(s) /\ s.exc = "ValueError"

\* C10: GET /api/artworks/<id> answers 200 with the transport form of the
\* entity the service returns, and 404 with an "error" message when the
\* service raises the not-found ValueError or returns None; a not-found
\* outcome is never answered with 200 or 500.
C10_RouteNotFound ==
    (dbPc = "done" /\ call.entry \in {"route", "route_stub"}) =>
        /\ (IsRet(svcResult) /\ svcResult.ret # NoneVal) =>
             /\ "status" \in DOMAIN httpResp
             /\ httpResp.status = 200
             /\ httpResp.body = ToDict(svcResult.ret)
             /\ httpResp.body.id = svcResult.ret.id
        /\ NotFoundOutcome(svcResult) =>
             /\ "status" \in DOMAIN httpResp
             /\ httpResp.status = 404
             /\ DOMAIN httpResp.body = {"error"}
             /\ httpResp.body.error # <<>>

\* the substituted service returned None and the route answered 404
C10_Witness ==
    /\ dbPc = "done" /\ call.entry = "route_stub"
    /\ svcResult = Ret(NoneVal)
    /\ httpResp.status = 404

-----------------------------------------------------------------------------
(* Properties of the endpoints *)

RouteDone == dbPc = "done" /\ call.entry \in {"route_stub", "route_list_stub"}

\* the service failed with something the endpoint has no 404 for
ServerFailure ==
    /\ IsRaise(svcResult)
    /\ IsException(svcResult)
    /\ call.entry = "route_stub" => svcResult.exc # "ValueError"

\* C11: on both endpoints a failure other than not-found is answered 500
\* with an "error" text, and the body does not depend on the underlying
\* exception: it is the same as that of any earlier 500 response, whatever
\* the two exceptions and their messages were.
C11_GenericServerError ==
    (RouteDone /\ ServerFailure) =>
        /\ "status" \in DOMAIN httpResp
        /\ httpResp.status = 500
        /\ DOMAIN httpResp.body = {"error"}
        /\ lastErrorBody # NoneVal => httpResp.body = lastErrorBody

\* the values of a query parameter that name a boolean
Recognized(param) == param # NoneVal /\ Lower(param.text) \in {"true", "false"}

ExpectedFilter(param) ==
    IF Recognized(param) THEN Bool(Lower(param.text) = "true") ELSE Absent

\* C12: GET /api/artworks calls get_all_artworks with featured (sold) absent
\* unless the featured (sold) parameter is present and spells true or false
\* in any letter case, and then with exactly that boolean; each filter
\* depends on its own parameter only.
C12_QueryParamsTriState ==
    (dbPc = "done" /\ call.entry = "route_list_stub") =>
        /\ call.featured = ExpectedFilter(call.featured_param)
        /\ call.sold = ExpectedFilter(call.sold_param)

-----------------------------------------------------------------------------
(* Properties of the repository *)

\* the connection, the cursor or the query failed, or the request was
\* interrupted, before the repository function had its rows
StorageFaults == {"InterfaceError", "DatabaseError", "KeyboardInterrupt"}

BodyFaulted ==
    /\ conn.commits = 0
    /\ origExc # NoneVal
    /\ origExc.exc \in StorageFaults

RepoDone(fn) ==
    /\ dbPc = "done" /\ call.entry = "repository" /\ call.fn = fn
    /\ conn.opened
    /\ ~BodyFaulted

\* the rows of the table that pass the filters of the call
Selected ==
    {r \in artworks :
        /\ call.featured = Bool(TRUE) => r["is_featured"]
        /\ call.featured = Bool(FALSE) => ~r["is_featured"]
        /\ call.sold = Bool(TRUE) => r["is_sold"]
        /\ call.sold = Bool(FALSE) => ~r["is_sold"]}

\* C13: find_all(featured, sold) on a storage that answers the query
\* returns, without raising, one entity for each row that passes every
\* present filter and nothing else, most recently created first; no filter
\* gives all rows, no matching row gives the empty list.
C13_FindAllFilters ==
    RepoDone("find_all") =>
        /\ conn.commits = 1
        /\ Len(value) = Cardinality(Selected)
        /\ \A r \in Selected : \E i \in DOMAIN value :
               /\ value[i].id = r["id"]
               /\ value[i].is_featured = r["is_featured"]
               /\ value[i].is_sold = r["is_sold"]
               /\ value[i].created_at = r["created_at"]
        /\ \A i \in DOMAIN value : \E r \in Selected : value[i].id = r["id"]
        /\ \A i, j \in DOMAIN value :
               i < j => value[i].created_at.ts >= value[j].created_at.ts
        /\ (call.featured = Absent /\ call.sold = Absent) =>
               Len(value) = Cardinality(artworks)
        /\ origExc = NoneVal => repoResult = Ret(value)

\* both filters given, two rows pass in creation order and another is left out
C13_Witness ==
    /\ RepoDone("find_all")
    /\ call.featured # Absent /\ call.sold # Absent
    /\ Cardinality(artworks) > Len(value)
    /\ Len(value) >= 1
    /\ repoResult = Ret(value)

\* C14: find_title_by_id(id) on a storage that answers the query returns
\* the title of the row with that id as a string, None when there is no
\* such row, and raises in neither case.
C14_FindTitleById ==
    RepoDone("find_title_by_id") =>
        /\ conn.commits = 1
        /\ (\E r \in artworks : r["id"] = call.id) =>
               \E r \in artworks : r["id"] = call.id /\ value = r["title"]
        /\ (\A r \in artworks : r["id"] # call.id) => value = NoneVal
        /\ origExc = NoneVal => repoResult = Ret(value)

-----------------------------------------------------------------------------
(* Properties of the Artwork entity *)

OtherFields ==
    {"id", "title", "description", "image_url", "price", "size", "medium",
     "year", "created_at", "updated_at"}

\* C15: mark_as_sold leaves the entity sold and not featured whatever its
\* flags were and touches no other field; called on an entity it has
\* already been called on, it changes nothing.
C15_MarkAsSoldIdempotent ==
    [][markCalls' = markCalls + 1 =>
         /\ artwork'.is_sold
         /\ ~artwork'.is_featured
         /\ \A k \in OtherFields : artwork'[k] = artwork[k]
         /\ markCalls >= 1 => artwork' = artwork]_vars

\* an entity built featured and unsold has been marked sold twice
C15_Witness ==
    /\ markCalls = 2
    /\ rowData # NoneVal /\ rowData["is_featured"] /\ ~rowData["is_sold"]
    /\ artwork.is_sold /\ ~artwork.is_featured

\* C16: no entity, however obtained (constructed directly or by from_dict
\* from a storage row, then marked sold any number of times), is sold and
\* featured at once.
C16_SoldNeverFeatured ==
    artwork # NoneVal => ~(artwork.is_sold /\ artwork.is_featured)

ScalarFields ==
    {"id", "title", "description", "image_url", "size", "medium", "year",
     "is_featured", "is_sold"}

\* C17: to_dict() of from_dict(row) carries every scalar field of the row
\* unchanged, an absent price as absent and a present price, zero
\* included, as the float of the same numeric value.
C17_RoundTrip ==
    (rowData # NoneVal /\ markCalls = 0 /\ transport # NoneVal) =>
        /\ \A k \in ScalarFields : transport[k] = rowData[k]
        /\ rowData["price"] = NoneVal => transport["price"] = NoneVal
        /\ rowData["price"] # NoneVal =>
              transport["price"] = [float |-> rowData["price"].dec]

-----------------------------------------------------------------------------
(* Properties of the error handling as a whole *)

\* requests.get raised, or raise_for_status did
RequestFailed(r) ==
    \/ "net" \in DOMAIN r
    \/ "status" \in DOMAIN r /\ r.status >= 400

QueryFailed == origExc # NoneVal /\ origExc.exc = "DatabaseError"

\* C18: one configuration load sends at most one request to the secrets
\* endpoint, and only with a token in hand (none when the token loop gave
\* up); one repository operation makes at most one connection and runs at
\* most one query; a failed request or query reaches the caller as an
\* error, the query's scope rolled back, with no second attempt.  The
\* token-file loop is the only repetition and stays within max_retries.
C18_OnlyTokenReadRetried ==
    /\ attempt <= max_retries
    /\ httpRequests <= 1
    /\ httpRequests = 1 <=> request # NoneVal
    /\ request # NoneVal => request.bearer # <<>>
    /\ (pc = "token" /\ tokPc # "returned") => httpRequests = 0
    /\ (pc = "done" /\ response # NoneVal /\ RequestFailed(response)) =>
          /\ httpRequests = 1
          /\ IsRaise(result)
          /\ ~stored
    /\ repoCalls <= 1
    /\ conn.executes <= 1
    /\ (ScopeLeft /\ QueryFailed) =>
          /\ conn.executes = 1
          /\ conn.commits = 0
          /\ conn.rollbacks = 1
          /\ IsRaise(repoResult)
          /\ ~conn.rollbackRaised => repoResult = origExc

\* after startup, a query failed once and its error came out of a rolled
\* back scope
C18_Witness ==
    /\ appCreated
    /\ ScopeLeft /\ QueryFailed
    /\ conn.executes = 1 /\ conn.rollbacks = 1
    /\ repoResult = origExc

-----------------------------------------------------------------------------
(* Properties of a failed load *)

\* the entry point ran _load_config and it raised: before the request (file,
\* URL or token) or on the endpoint's answer or the validation
LoadFailed ==
    /\ pc = "done" /\ docReads = 1
    /\ \/ response = NoneVal
       \/ IsRaise(BuildSnapshot(CONFIG_FILE, response))

\* C19: a load that fails, at whatever step, raises and leaves
\* Config._config as it was: a reload keeps the previous snapshot whole, so
\* the accessors still return it, and a failed lazy load leaves it empty,
\* so the next accessor call loads again.
C19_FailedLoadKeepsSnapshot ==
    LoadFailed =>
        /\ IsRaise(result)
        /\ ~stored
        /\ Config_config = oldConfig
        /\ op \in Accessors => Config_config = EmptyDict
        /\ oldConfig # EmptyDict =>
              /\ op \in Loaders
              /\ EntryResult("_get_config", Config_config, TRUE) = Ret(oldConfig)

\* a reload was refused by the endpoint's answer while a snapshot was cached
C19_Witness ==
    /\ LoadFailed
    /\ op = "load_app_config"
    /\ response # NoneVal
    /\ oldConfig # EmptyDict
    /\ Config_config = oldConfig

====
